---- MODULE Spec2Model ----
(***************************************************************************)
(* Data_Insights_Agent/app.py: the insight pipeline                        *)
(*   load_data -> detect_date_column -> classify_domain ->                 *)
(*   finance_insights | marketing_insights -> rewrite_insights             *)
(* as a state machine over one uploaded table.                             *)
(*                                                                         *)
(* Representation.                                                         *)
(*  - A column name is a sequence of one-character strings, so that        *)
(*    str.lower(), str.title() and the `k in name` substring test are      *)
(*    computed character by character; Str turns it into a string.         *)
(*  - A cell is <<>> (missing: NaN / NaT) or <<v>>.  Numeric cells hold    *)
(*    the value in tenths (0.5 is <<5>>, 100 is <<1000>>); growth rates,   *)
(*    z-scores and comparisons are ratios, computed exactly.  Text cells   *)
(*    hold an index into TextValues, datetime cells a time since epoch.    *)
(*  - A column is [name, kind, vals] with kind "num" (int64/float64),      *)
(*    "text" (object) or "datetime" (datetime64[ns]).                      *)
(*  - Insights and the narrative are strings, built with \o.               *)
(***************************************************************************)
EXTENDS Integers, Sequences, FiniteSets, TLC

VARIABLES
    df0,          \* the table as load_data returned it (never changed)
    df,           \* the DataFrame the pipeline works on (mutated by detect_date_column)
    date_col,     \* result of detect_date_column
    domain,       \* result of classify_domain
    insights,     \* result of finance_insights / marketing_insights
    final_output, \* result of rewrite_insights
    abs_nat,      \* abs(pandas.NaT) in the installed pandas: "raises" (TypeError) or "NaT"
    pc            \* position in the script: loaded, probed, classified, insights, done, error

vars == <<df0, df, date_col, domain, insights, final_output, abs_nat, pc>>

\* ---------------------------------------------------------------- bounds
MaxCols == 3
MaxRows == 6

\* ---------------------------------------------------------------- text
\* Python None for date_col (a column name is never empty)
None == <<>>
\* a missing cell: NaN in a numeric column, NaT in a datetime column
NA == <<>>

UpperCase == <<"A","B","C","D","E","F","G","H","I","J","K","L","M",
               "N","O","P","Q","R","S","T","U","V","W","X","Y","Z">>
LowerCase == <<"a","b","c","d","e","f","g","h","i","j","k","l","m",
               "n","o","p","q","r","s","t","u","v","w","x","y","z">>

IsUpper(c) == \E i \in 1..26 : UpperCase[i] = c
IsLower(c) == \E i \in 1..26 : LowerCase[i] = c
IsCased(c) == IsUpper(c) \/ IsLower(c)
ToLowerChar(c) ==
    IF IsUpper(c) THEN LowerCase[CHOOSE i \in 1..26 : UpperCase[i] = c] ELSE c
ToUpperChar(c) ==
    IF IsLower(c) THEN UpperCase[CHOOSE i \in 1..26 : LowerCase[i] = c] ELSE c

\* str.lower()
Lower(s) == [i \in 1..Len(s) |-> ToLowerChar(s[i])]

\* str.title(): a cased character is upper-cased when the character before it
\* is not cased (or it is the first), lower-cased otherwise
Title(s) ==
    [i \in 1..Len(s) |->
        IF i = 1 \/ ~IsCased(s[i - 1]) THEN ToUpperChar(s[i]) ELSE ToLowerChar(s[i])]

\* `k in s` for strings: k occurs in s as a contiguous substring
Contains(k, s) ==
    \E i \in 1..(Len(s) - Len(k) + 1) : SubSeq(s, i, i + Len(k) - 1) = k

RECURSIVE Str(_)
Str(s) == IF s = <<>> THEN "" ELSE s[1] \o Str(Tail(s))

\* ---------------------------------------------------------------- column names
N_date       == <<"d","a","t","e">>
N_notes      == <<"n","o","t","e","s">>
N_revenue    == <<"r","e","v","e","n","u","e">>
N_cost       == <<"c","o","s","t">>
N_margin     == <<"g","r","o","s","s"," ","M","A","R","G","I","N">>
N_leads      == <<"l","e","a","d","s">>
N_conversion == <<"c","o","n","v","e","r","s","i","o","n">>
N_traffic    == <<"t","r","a","f","f","i","c">>
N_churn      == <<"c","h","u","r","n">>
N_id         == <<"i","d">>
N_name       == <<"n","a","m","e">>
N_profit_margin == <<"P","r","o","f","i","t"," ","M","a","r","g","i","n">>
N_sales_leads   == <<"s","a","l","e","s","_","l","e","a","d","s">>
N_ctr        == <<"C","T","R">>
N_traffic_cac == <<"T","r","a","f","f","i","c"," ","C","A","C">>
N_net_sales  == <<"N","e","t"," ","S","a","l","e","s">>

\* ---------------------------------------------------------------- uploaded tables
\* A column shape: the first value, the value of every middle row, the last
\* value.  With n rows the column is <<f>> (n = 1) or <<f, m, ..., m, l>>.
Shape(name, kind, f, m, l) == [name |-> name, kind |-> kind, f |-> f, m |-> m, l |-> l]

\* The strings a text (object) cell can hold, in Python's string order; a text
\* cell <<k>> holds TextValues[k], so that str < str is < on the indices.
TextValues == <<"2024-01-01", "2024-02-01", "2024-03-01", "high", "low", "ok", "tbd">>
TextCell(str) == <<CHOOSE k \in 1..Len(TextValues) : TextValues[k] = str>>
D1 == TextCell("2024-01-01")
D2 == TextCell("2024-02-01")
D3 == TextCell("2024-03-01")

FinanceShapes ==
    { Shape(N_date, "text", D1, D2, D3),
      Shape(N_notes, "text", TextCell("ok"), TextCell("ok"), TextCell("tbd")),
      Shape(N_revenue, "num", <<1000>>, <<1000>>, <<800>>),
      Shape(N_revenue, "num", <<500>>, <<500>>, <<700>>),
      Shape(N_revenue, "num", <<0>>, <<1000>>, <<800>>),
      Shape(N_revenue, "num", NA, <<1000>>, <<800>>),
      Shape(N_cost, "num", <<500>>, <<500>>, <<700>>),
      Shape(N_cost, "num", <<1000>>, <<1000>>, <<1000>>),
      Shape(N_cost, "num", <<1000>>, <<1000>>, <<1040>>),
      Shape(N_cost, "num", <<500>>, <<700>>, NA),
      Shape(N_margin, "num", <<-500>>, <<-500>>, <<-700>>),
      Shape(N_margin, "num", <<300>>, <<300>>, <<400>>) }

MarketingShapes ==
    { Shape(N_date, "text", D1, D2, D3),
      Shape(N_leads, "num", <<100>>, <<100>>, <<200>>),
      Shape(N_conversion, "num", <<5>>, <<5>>, <<3>>),
      Shape(N_conversion, "num", <<3>>, <<3>>, <<5>>),
      Shape(N_conversion, "num", NA, <<5>>, <<3>>),
      Shape(N_traffic, "num", <<1000>>, <<1000>>, <<1200>>),
      Shape(N_traffic, "num", <<1000>>, <<1000>>, <<800>>),
      Shape(N_traffic, "num", <<1000>>, <<1000>>, <<1100>>),
      Shape(N_traffic, "num", <<0>>, <<1000>>, <<1200>>),
      Shape(N_traffic, "text", TextCell("high"), TextCell("high"), TextCell("low")),
      Shape(N_churn, "num", <<500>>, <<500>>, <<700>>),
      Shape(N_churn, "num", <<500>>, <<500>>, <<525>>) }

NamingShapes ==
    { Shape(nm, "text", TextCell("ok"), TextCell("ok"), TextCell("tbd")) :
        nm \in {N_id, N_name, N_profit_margin, N_sales_leads, N_ctr, N_traffic_cac,
                N_net_sales} }

Families == {FinanceShapes, MarketingShapes, NamingShapes}

\* the n cells of a column of the given shape
Cells(sh, n) ==
    [i \in 1..n |-> IF i = 1 THEN sh.f ELSE IF i = n THEN sh.l ELSE sh.m]

\* load_data: pandas gives a header-only table object columns, whatever the
\* values would have been
LoadColumn(sh, n) ==
    [name |-> sh.name,
     kind |-> IF n = 0 THEN "text" ELSE sh.kind,
     vals |-> Cells(sh, n)]

\* the row counts drawn: the small ones and the largest
RowCounts == (0..3) \cup {MaxRows}

\* whether the shapes of a table have pairwise different names
DistinctNames(shs) ==
    \A i, j \in 1..Len(shs) : i # j => shs[i].name # shs[j].name

\* load_data: the table of n rows with the given column shapes
load_data(shs, n) == [i \in 1..Len(shs) |-> LoadColumn(shs[i], n)]

\* ---------------------------------------------------------------- pandas
\* The strings pandas.to_datetime parses, and the time each one denotes
\* (days after 2024-01-01: only the order of a column's times is ever read).
DateStrings == {"2024-01-01", "2024-02-01", "2024-03-01"}
ParseDate(str) ==
    CASE str = "2024-01-01" -> 0
      [] str = "2024-02-01" -> 31
      [] str = "2024-03-01" -> 60

\* float -> integer nanoseconds: the fraction is cut off (towards zero);
\* numeric cells are in tenths.  The only fractional values of the tables
\* below are 0.3 and 0.5, which become 0 under rounding to even as well.
TruncToInt(v) == IF v >= 0 THEN v \div 10 ELSE -((-v) \div 10)

\* whether pd.to_datetime(column) returns rather than raises: numbers are
\* read as nanoseconds since the epoch, strings must all parse as dates
CanCoerce(col) ==
    CASE col.kind = "num" -> TRUE
      [] col.kind = "datetime" -> TRUE
      [] col.kind = "text" ->
            \A i \in 1..Len(col.vals) :
                col.vals[i] # NA /\ TextValues[col.vals[i][1]] \in DateStrings

\* pd.to_datetime(column), for a column it accepts
to_datetime(col) ==
    [name |-> col.name,
     kind |-> "datetime",
     vals |-> [i \in 1..Len(col.vals) |->
                 IF col.vals[i] = NA THEN NA
                 ELSE CASE col.kind = "num" -> <<TruncToInt(col.vals[i][1])>>
                        [] col.kind = "text" -> <<ParseDate(TextValues[col.vals[i][1]])>>
                        [] col.kind = "datetime" -> col.vals[i]]]

\* Series.dropna()
dropna(col) == [col EXCEPT !.vals = SelectSeq(col.vals, LAMBDA c : c # NA)]

\* df.select_dtypes(include="number").columns, as column positions
NumericCols(d) == {i \in 1..Len(d) : d[i].kind = "num"}

\* `name in df.columns` and df[name]
HasColumn(d, name) == \E i \in 1..Len(d) : d[i].name = name
Column(d, name) == d[CHOOSE i \in 1..Len(d) : d[i].name = name]

\* ---------------------------------------------------------------- detect_date_column
\* the loop from column i on: the first column that to_datetime accepts is
\* replaced by its conversion and its name returned; a column that raises is
\* skipped (bare except)
\* (mutant) no early return: every column that converts is converted
RECURSIVE DetectFromNoReturn(_, _)
DetectFromNoReturn(d, i) ==
    IF i > Len(d) THEN [df |-> d, col |-> None]
    ELSE IF CanCoerce(d[i])
         THEN LET r == DetectFromNoReturn([d EXCEPT ![i] = to_datetime(d[i])], i + 1)
              IN  [df |-> r.df, col |-> d[i].name]
         ELSE DetectFromNoReturn(d, i + 1)

RECURSIVE DetectFrom(_, _)
DetectFrom(d, i) ==
    IF i > Len(d) THEN [df |-> d, col |-> None]
    ELSE IF CanCoerce(d[i])
         THEN [df |-> [d EXCEPT ![i] = to_datetime(d[i])], col |-> d[i].name]
         ELSE DetectFrom(d, i + 1)

detect_date_column(d) == DetectFrom(d, 1)

\* ---------------------------------------------------------------- classify_domain
Kw(str) ==
    CASE str = "revenue" -> N_revenue
      [] str = "sales" -> <<"s","a","l","e","s">>
      [] str = "profit" -> <<"p","r","o","f","i","t">>
      [] str = "margin" -> <<"m","a","r","g","i","n">>
      [] str = "cost" -> N_cost
      [] str = "expense" -> <<"e","x","p","e","n","s","e">>
      [] str = "ebitda" -> <<"e","b","i","t","d","a">>
      [] str = "leads" -> N_leads
      [] str = "conversion" -> N_conversion
      [] str = "ctr" -> <<"c","t","r">>
      [] str = "cac" -> <<"c","a","c">>
      [] str = "traffic" -> N_traffic
      [] str = "churn" -> N_churn
      [] str = "retention" -> <<"r","e","t","e","n","t","i","o","n">>

finance_keywords ==
    {Kw("revenue"), Kw("sales"), Kw("profit"), Kw("margin"), Kw("cost"),
     Kw("expense"), Kw("ebitda")}
marketing_keywords ==
    {Kw("leads"), Kw("conversion"), Kw("ctr"), Kw("cac"), Kw("traffic"),
     Kw("churn"), Kw("retention")}

\* (mutant) the number of keywords the name contains, not their presence
MatchesCountingKeywords(keywords, col) ==
    LET lowered == Lower(col)
    IN  Cardinality({k \in keywords : Contains(k, lowered)})

\* any(k in col.lower() for k in keywords), as 0 or 1
Matches(keywords, col) ==
    LET lowered == Lower(col)
    IN  IF \E k \in keywords : Contains(k, lowered) THEN 1 ELSE 0

\* sum(any(...) for col in columns)
RECURSIVE Score(_, _)
Score(keywords, columns) ==
    IF columns = <<>> THEN 0
    ELSE Matches(keywords, Head(columns)) + Score(keywords, Tail(columns))

classify_domain(columns) ==
    IF Score(finance_keywords, columns) >= Score(marketing_keywords, columns)
    THEN "Finance"
    ELSE "Marketing"

ColumnNames(d) == [i \in 1..Len(d) |-> d[i].name]

\* ---------------------------------------------------------------- growth_rate, detect_outliers
GrowthThreshold == 5
TrafficThreshold == 10
ChurnThreshold == 5
ZThreshold == 2

Abs(x) == IF x < 0 THEN -x ELSE x

Raised == [tag |-> "err", num |-> 0, den |-> 1]
NaN == [tag |-> "nan", num |-> 0, den |-> 1]

\* growth_rate(series): the rate num/den (den > 0), NaN, or an exception.
\*   empty series: .iloc[0] raises IndexError
\*   numbers: NaN when the first value is 0; NaN arithmetic gives NaN
\*   strings: str == 0 is False, then str - str raises TypeError
\*   datetimes: Timestamp == 0 is False, then abs(Timestamp) raises TypeError;
\*     with NaT first the result is abs(NaT), which raises or gives NaT -> NaN
growth_rate(series) ==
    LET n == Len(series.vals)
        first == series.vals[1]
        last == series.vals[n]
    IN  IF n = 0 THEN Raised
        ELSE CASE series.kind = "text" -> Raised
               [] series.kind = "datetime" ->
                     IF first # NA THEN Raised
                     ELSE IF abs_nat = "raises" THEN Raised ELSE NaN
               [] series.kind = "num" ->
                     IF first = NA THEN NaN
                     ELSE IF first[1] = 0 THEN NaN
                     ELSE IF last = NA THEN NaN
                     ELSE [tag |-> "val",
                           num |-> (last[1] - first[1]) * 100,
                           den |-> Abs(first[1])]

\* growth > k, growth < k for an integer k: False for NaN
GrowthAbove(g, k) == g.tag = "val" /\ g.num > k * g.den
GrowthBelow(g, k) == g.tag = "val" /\ g.num < k * g.den
\* a > b for two growth rates: False when either is NaN
GrowthExceeds(a, b) ==
    a.tag = "val" /\ b.tag = "val" /\ a.num * b.den > b.num * a.den

RECURSIVE SumOf(_)
SumOf(xs) == IF xs = <<>> THEN 0 ELSE Head(xs)[1] + SumOf(Tail(xs))
RECURSIVE SumSq(_)
SumSq(xs) == IF xs = <<>> THEN 0 ELSE Head(xs)[1] * Head(xs)[1] + SumSq(Tail(xs))

\* detect_outliers(series), for a numeric series without missing values: the
\* positions whose z-score exceeds 2 in magnitude.  Series.std() is the sample
\* standard deviation (ddof = 1): with S the sum, Q the sum of squares,
\*   std^2 = (n Q - S^2) / (n (n - 1)),   (x - mean)^2 = (n x - S)^2 / n^2
\* so |z| > 2  iff  (n x - S)^2 (n - 1) > 2^2 n (n Q - S^2).
\* Fewer than 2 values: std is NaN, nothing compares greater.
detect_outliers(series) ==
    LET xs == series.vals
        n == Len(xs)
        S == SumOf(xs)
        Q == SumSq(xs)
    IN  IF n < 2 THEN {}
        ELSE IF n * Q - S * S = 0 THEN {}
        ELSE {i \in 1..n :
                (n * xs[i][1] - S) * (n * xs[i][1] - S) * (n - 1)
                    > ZThreshold * ZThreshold * n * (n * Q - S * S)}

\* f"{x:.1f}" for x = num/den >= 0: rounded to the nearest tenth, a tie to
\* the even tenth
FormatOneDecimal(num, den) ==
    LET q == (10 * num) \div den
        r == (10 * num) % den
        t == IF 2 * r > den THEN q + 1
             ELSE IF 2 * r = den THEN q + (q % 2)
             ELSE q
    IN  ToString(t \div 10) \o "." \o ToString(t % 10)

\* ---------------------------------------------------------------- finance_insights
IncreasedSentence(col, g) ==
    Str(Title(col.name)) \o " increased by " \o FormatOneDecimal(g.num, g.den)
        \o "% over the period."
DeclinedSentence(col, g) ==
    Str(Title(col.name)) \o " declined by " \o FormatOneDecimal(Abs(g.num), g.den)
        \o "% over the period."
VolatilitySentence(col) ==
    Str(Title(col.name)) \o " showed unusual spikes or drops, indicating volatility."
MarginSentence == "Costs grew faster than revenue, leading to margin pressure."

\* (mutant) the volatility check placed before the growth check
ColumnInsightsVolatilityFirst(col) ==
    LET series == dropna(col)
        growth == growth_rate(series)
    IN  IF Len(series.vals) < 2 THEN <<>>
        ELSE (IF detect_outliers(series) # {} THEN <<VolatilitySentence(col)>> ELSE <<>>)
             \o (IF GrowthAbove(growth, GrowthThreshold)
                   THEN <<IncreasedSentence(col, growth)>>
                 ELSE IF GrowthBelow(growth, -GrowthThreshold)
                   THEN <<DeclinedSentence(col, growth)>>
                 ELSE <<>>)

\* one pass of the loop body for a numeric column
ColumnInsights(col) ==
    LET series == dropna(col)
        growth == growth_rate(series)
    IN  IF Len(series.vals) < 2 THEN <<>>
        ELSE (IF GrowthAbove(growth, GrowthThreshold)
                THEN <<IncreasedSentence(col, growth)>>
              ELSE IF GrowthBelow(growth, -GrowthThreshold)
                THEN <<DeclinedSentence(col, growth)>>
              ELSE <<>>)
             \o (IF detect_outliers(series) # {} THEN <<VolatilitySentence(col)>> ELSE <<>>)

\* the loop over numeric_cols, from column position i on
RECURSIVE PerColumnInsights(_, _)
PerColumnInsights(d, i) ==
    IF i > Len(d) THEN <<>>
    ELSE (IF d[i].kind = "num" THEN ColumnInsights(d[i]) ELSE <<>>)
         \o PerColumnInsights(d, i + 1)

\* the margin pressure block: the sentences it appends, or an exception
MarginPressure(d) ==
    IF HasColumn(d, N_revenue) /\ HasColumn(d, N_cost)
    THEN LET rev_growth == growth_rate(Column(d, N_revenue))
             cost_growth == growth_rate(Column(d, N_cost))
         IN  IF rev_growth.tag = "err" \/ cost_growth.tag = "err"
             THEN [err |-> TRUE, out |-> <<>>]
             ELSE [err |-> FALSE,
                   out |-> IF GrowthExceeds(cost_growth, rev_growth)
                           THEN <<MarginSentence>> ELSE <<>>]
    ELSE [err |-> FALSE, out |-> <<>>]

\* finance_insights(df, date_col): the list returned, or err when it raises
finance_insights(d) ==
    IF NumericCols(d) = {} THEN [err |-> FALSE, out |-> <<>>]
    ELSE LET m == MarginPressure(d)
         IN  IF m.err THEN [err |-> TRUE, out |-> <<>>]
             ELSE [err |-> FALSE, out |-> PerColumnInsights(d, 1) \o m.out]

\* ---------------------------------------------------------------- marketing_insights
ConversionSentence == "Conversion rates declined, indicating funnel efficiency issues."
TrafficUpSentence ==
    "Website traffic increased strongly, suggesting effective acquisition efforts."
TrafficDownSentence == "Website traffic declined significantly, requiring channel review."
ChurnSentence == "Customer churn increased, particularly among sensitive segments."

\* a < b for two cells of one column: False when either is missing
CellLess(a, b) == a # NA /\ b # NA /\ a[1] < b[1]

ConversionCheck(d) ==
    IF HasColumn(d, N_leads) /\ HasColumn(d, N_conversion)
    THEN LET conv == Column(d, N_conversion).vals
         IN  IF Len(conv) = 0 THEN [err |-> TRUE, out |-> <<>>]
             ELSE [err |-> FALSE,
                   out |-> IF CellLess(conv[Len(conv)], conv[1])
                           THEN <<ConversionSentence>> ELSE <<>>]
    ELSE [err |-> FALSE, out |-> <<>>]

TrafficCheck(d) ==
    IF HasColumn(d, N_traffic)
    THEN LET traffic_growth == growth_rate(Column(d, N_traffic))
         IN  IF traffic_growth.tag = "err" THEN [err |-> TRUE, out |-> <<>>]
             ELSE [err |-> FALSE,
                   out |-> IF GrowthAbove(traffic_growth, TrafficThreshold)
                             THEN <<TrafficUpSentence>>
                           ELSE IF GrowthBelow(traffic_growth, -TrafficThreshold)
                             THEN <<TrafficDownSentence>>
                           ELSE <<>>]
    ELSE [err |-> FALSE, out |-> <<>>]

ChurnCheck(d) ==
    IF HasColumn(d, N_churn)
    THEN LET churn_growth == growth_rate(Column(d, N_churn))
         IN  IF churn_growth.tag = "err" THEN [err |-> TRUE, out |-> <<>>]
             ELSE [err |-> FALSE,
                   out |-> IF GrowthAbove(churn_growth, ChurnThreshold)
                           THEN <<ChurnSentence>> ELSE <<>>]
    ELSE [err |-> FALSE, out |-> <<>>]

\* marketing_insights(df, date_col): the list returned, or err when it raises
marketing_insights(d) ==
    LET c == ConversionCheck(d)
        t == TrafficCheck(d)
        h == ChurnCheck(d)
    IN  IF c.err \/ t.err \/ h.err THEN [err |-> TRUE, out |-> <<>>]
        ELSE [err |-> FALSE, out |-> c.out \o t.out \o h.out]

\* ---------------------------------------------------------------- rewrite_insights
Fallback == "No significant patterns or changes were detected in the data."
FinancePreamble == "Financial performance analysis shows that "
FinanceEpilogue ==
    " Overall results indicate key areas impacting profitability and cost structure."
MarketingPreamble == "Marketing performance analysis indicates that "
MarketingEpilogue ==
    " These trends highlight opportunities to improve acquisition efficiency and retention."

\* " ".join(insights)
RECURSIVE Join(_)
Join(ins) ==
    IF ins = <<>> THEN ""
    ELSE IF Len(ins) = 1 THEN ins[1]
    ELSE ins[1] \o " " \o Join(Tail(ins))

rewrite_insights(ins, dom) ==
    IF ins = <<>> THEN Fallback
    ELSE IF dom = "Finance"
         THEN FinancePreamble \o Join(ins) \o FinanceEpilogue
         ELSE MarketingPreamble \o Join(ins) \o MarketingEpilogue

\* ---------------------------------------------------------------- the script
\* abs(NaT) is evaluated only on a numeric column that starts with a missing
\* value and was converted to datetime; for other tables one outcome is drawn
ReadsAbsNaT(d) == \E i \in 1..Len(d) : d[i].kind = "num" /\ d[i].vals[1] = NA

\* `if uploaded_file:` df = load_data(uploaded_file)
Init ==
    /\ \E fam \in Families, k \in 1..MaxCols, n \in RowCounts :
          \E shs \in [1..k -> fam] :
             /\ DistinctNames(shs)
             /\ df0 = load_data(shs, n)
    /\ df = df0
    /\ abs_nat \in IF ReadsAbsNaT(df0) THEN {"raises", "NaT"} ELSE {"raises"}
    /\ date_col = None
    /\ domain = ""
    /\ insights = <<>>
    /\ final_output = ""
    /\ pc = "loaded"

\* date_col = detect_date_column(df)
DetectDateColumn ==
    /\ pc = "loaded"
    /\ LET r == detect_date_column(df)
       IN  /\ df' = r.df
           /\ date_col' = r.col
    /\ pc' = "probed"
    /\ UNCHANGED <<df0, domain, insights, final_output, abs_nat>>

\* domain = classify_domain(df.columns)
ClassifyDomain ==
    /\ pc = "probed"
    /\ domain' = classify_domain(ColumnNames(df))
    /\ pc' = "classified"
    /\ UNCHANGED <<df0, df, date_col, insights, final_output, abs_nat>>

\* the "Generate Insights" button: insights = finance_insights(df, date_col)
\* or marketing_insights(df, date_col); an exception ends the run
GenerateInsights ==
    /\ pc = "classified"
    /\ LET r == IF domain = "Finance" THEN finance_insights(df)
                ELSE marketing_insights(df)
       IN  IF r.err
           THEN pc' = "error" /\ insights' = insights
           ELSE pc' = "insights" /\ insights' = r.out
    /\ UNCHANGED <<df0, df, date_col, domain, final_output, abs_nat>>

\* final_output = rewrite_insights(insights, domain)
RewriteInsights ==
    /\ pc = "insights"
    /\ final_output' = rewrite_insights(insights, domain)
    /\ pc' = "done"
    /\ UNCHANGED <<df0, df, date_col, domain, insights, abs_nat>>

Next ==
    \/ DetectDateColumn
    \/ ClassifyDomain
    \/ GenerateInsights
    \/ RewriteInsights

Spec == Init /\ [][Next]_vars

\* ================================================================ claims
Range(seq) == {seq[i] : i \in 1..Len(seq)}
\* the button was pressed and finance_insights / marketing_insights has ended
Ended == pc \in {"insights", "done", "error"}
\* it returned a list
Returned == pc \in {"insights", "done"}

RevenueDown == Shape(N_revenue, "num", <<1000>>, <<1000>>, <<800>>)
CostUp == Shape(N_cost, "num", <<500>>, <<500>>, <<700>>)
LeadsUp == Shape(N_leads, "num", <<100>>, <<100>>, <<200>>)
ConversionDown == Shape(N_conversion, "num", <<5>>, <<5>>, <<3>>)
DateColumn == Shape(N_date, "text", D1, D2, D3)

\* ---------------------------------------------------------------- C1
Scenario1 == load_data(<<RevenueDown, CostUp>>, 2)
Scenario1Insights ==
    <<"Revenue declined by 20.0% over the period.",
      "Cost increased by 40.0% over the period.",
      "Costs grew faster than revenue, leading to margin pressure.">>
Scenario1Narrative ==
    "Financial performance analysis shows that "
    \o "Revenue declined by 20.0% over the period. "
    \o "Cost increased by 40.0% over the period. "
    \o "Costs grew faster than revenue, leading to margin pressure. "
    \o "Overall results indicate key areas impacting profitability and cost structure."

\* C1: on the table revenue=[100,80], cost=[50,70] the pipeline produces
\* exactly the three insights "Revenue declined by 20.0%...", "Cost increased
\* by 40.0%...", "Costs grew faster than revenue..." in that order, and the
\* narrative is these sentences joined by single spaces inside the Finance
\* template.
C1_Scenario1ThreeInsights ==
    (df0 = Scenario1 /\ Ended) =>
        /\ pc # "error"
        /\ domain = "Finance"
        /\ insights = Scenario1Insights
        /\ (pc = "done" => final_output = Scenario1Narrative)

\* ---------------------------------------------------------------- C2
FewValues(d) == \E i \in 1..Len(d) : Len(dropna(d[i]).vals) < 2
ConstantColumn(d) ==
    \E i \in 1..Len(d) :
        /\ d[i].kind = "num"
        /\ Len(dropna(d[i]).vals) >= 2
        /\ Cardinality(Range(dropna(d[i]).vals)) = 1
UndefinedGrowth(d) ==
    \E i \in 1..Len(d) :
        /\ d[i].kind = "num"
        /\ Len(d[i].vals) >= 1
        /\ (d[i].vals[1] = NA \/ d[i].vals[1] = <<0>>)
NoKeywordMatch(d) ==
    \A i \in 1..Len(d) :
        \A k \in finance_keywords \cup marketing_keywords : ~Contains(k, Lower(d[i].name))
NoDateLikeColumn(d) ==
    ~\E i \in 1..Len(d) :
        /\ d[i].kind = "text"
        /\ Len(d[i].vals) >= 1
        /\ \A j \in 1..Len(d[i].vals) : TextValues[d[i].vals[j][1]] \in DateStrings
Degenerate(d) ==
    \/ FewValues(d)
    \/ ConstantColumn(d)
    \/ UndefinedGrowth(d)
    \/ NoKeywordMatch(d)
    \/ NoDateLikeColumn(d)

\* C2: for every table with an expected degenerate condition (a column with
\* fewer than 2 values, a constant column, a column whose first value is 0 or
\* missing, no keyword match, no date-like column) the pipeline completes:
\* no error state is ever reached, in either rule set.
C2_DegenerateNeverErrors ==
    Degenerate(df0) => pc # "error"

\* ---------------------------------------------------------------- C3
\* the rule set of the classified domain, applied to a table
RuleEngine(d) == IF domain = "Finance" THEN finance_insights(d) ELSE marketing_insights(d)

\* C3: the date probe is informational only: the outcome of the rule engine
\* after detect_date_column has run on the table is the outcome it has on the
\* table as loaded, without the probe.
C3_DateProbeNotConsumed ==
    Ended =>
        /\ (pc = "error") = RuleEngine(df0).err
        /\ (pc # "error" => insights = RuleEngine(df0).out)

\* ---------------------------------------------------------------- C4
\* the growth rate of a stored series is defined: numbers, first and last
\* present, first not 0
RateDefined(col) ==
    /\ col.kind = "num"
    /\ Len(col.vals) >= 1
    /\ col.vals[1] # NA
    /\ col.vals[1] # <<0>>
    /\ col.vals[Len(col.vals)] # NA
\* (last - first) / |first| of c is greater than that of r
RateGreater(c, r) ==
    LET cf == c.vals[1][1]
        cl == c.vals[Len(c.vals)][1]
        rf == r.vals[1][1]
        rl == r.vals[Len(r.vals)][1]
    IN  (cl - cf) * Abs(rf) > (rl - rf) * Abs(cf)

\* C4: in finance_insights the margin-pressure sentence is appended if and
\* only if a "revenue" and a "cost" column both exist, both growth rates (on
\* the stored first and last values) are defined and cost's is strictly
\* greater; otherwise nothing is appended, and no error occurs.
C4_MarginPressureRule ==
    (Ended /\ domain = "Finance") =>
        /\ pc # "error"
        /\ (MarginSentence \in Range(insights)) =
             ( /\ HasColumn(df, N_revenue)
               /\ HasColumn(df, N_cost)
               /\ RateDefined(Column(df, N_revenue))
               /\ RateDefined(Column(df, N_cost))
               /\ RateGreater(Column(df, N_cost), Column(df, N_revenue)) )

\* ---------------------------------------------------------------- C5
\* first and last non-missing value of a column with at least one
FirstValue(col) == dropna(col).vals[1][1]
LastValue(col) == dropna(col).vals[Len(dropna(col).vals)][1]
\* the column's growth sentences, whatever the percentage printed
IncreasedSentences(col) ==
    {Str(Title(col.name)) \o " increased by " \o ToString(a) \o "." \o ToString(b)
        \o "% over the period." : a \in 0..100, b \in 0..9}
DeclinedSentences(col) ==
    {Str(Title(col.name)) \o " declined by " \o ToString(a) \o "." \o ToString(b)
        \o "% over the period." : a \in 0..100, b \in 0..9}

\* C5: for every numeric column of a Finance table with at least 2 non-missing
\* values and first value not 0: last more than 5% above first => the list has
\* the column's "increased" sentence; last more than 5% below first => it has
\* the column's "declined" sentence; never both; within [-5, 5] neither.
C5_GrowthSentencePerNumericColumn ==
    (Ended /\ domain = "Finance") =>
        \A i \in 1..Len(df0) :
            (df0[i].kind = "num" /\ Len(dropna(df0[i]).vals) >= 2 /\ FirstValue(df0[i]) # 0) =>
                LET f == FirstValue(df0[i])
                    l == LastValue(df0[i])
                    inc == IncreasedSentences(df0[i]) \cap Range(insights)
                    dec == DeclinedSentences(df0[i]) \cap Range(insights)
                IN  /\ ((l - f) * 100 > 5 * Abs(f)) = (inc # {})
                    /\ ((l - f) * 100 < -5 * Abs(f)) = (dec # {})
                    /\ ~(inc # {} /\ dec # {})

\* ---------------------------------------------------------------- C6
\* C6: for every table with no numeric column (such as one with only a text
\* column), under either domain the rule engine yields an empty list and
\* rewrite_insights returns exactly the fallback, with no preamble or
\* epilogue; and the fallback is returned only when the list is empty.
C6_NoSignalGivesFallback ==
    /\ (Ended /\ NumericCols(df0) = {}) =>
          /\ pc # "error"
          /\ insights = <<>>
          /\ (pc = "done" => final_output = Fallback)
    /\ (pc = "done" => ((final_output = Fallback) = (insights = <<>>)))

\* ---------------------------------------------------------------- C7
Classified == pc \in {"classified", "insights", "done", "error"}
\* the columns whose lower-cased name contains at least one of the keywords
ColumnsWith(keywords, names) ==
    {i \in 1..Len(names) :
        LET lowered == Lower(names[i]) IN \E k \in keywords : Contains(k, lowered)}
\* the keywords a name contains
KeywordsIn(keywords, name) == {k \in keywords : Contains(k, Lower(name))}

\* C7: classify_domain returns Finance iff the number of columns naming a
\* Finance keyword is >= the number of columns naming a Marketing keyword
\* (each column counted once per side), Marketing otherwise; the result is the
\* same for every permutation of the columns.
C7_ClassifyByPresenceCounts ==
    Classified =>
        LET names == ColumnNames(df)
            F == Cardinality(ColumnsWith(finance_keywords, names))
            M == Cardinality(ColumnsWith(marketing_keywords, names))
        IN  /\ domain = (IF F >= M THEN "Finance" ELSE "Marketing")
            /\ pc = "classified" =>
                  \A p \in Permutations(1..Len(names)) :
                     classify_domain([i \in 1..Len(names) |-> names[p[i]]]) = domain

\* a tie between the two sides, with a column that names two keywords
C7_Witness ==
    /\ pc = "classified"
    /\ domain = "Finance"
    /\ Cardinality(ColumnsWith(finance_keywords, ColumnNames(df))) = 1
    /\ Cardinality(ColumnsWith(marketing_keywords, ColumnNames(df))) = 1
    /\ \E i \in 1..Len(df) : Cardinality(KeywordsIn(marketing_keywords, df[i].name)) = 2

\* ---------------------------------------------------------------- C8
\* C8: detect_date_column returns the name of the first column, in declared
\* order, that converts, or None; on success exactly that column is replaced by
\* its conversion and every other column is unchanged; when no column converts
\* the table is unchanged.
C8_FirstCoercibleColumnOnly ==
    pc # "loaded" =>
        LET C == {i \in 1..Len(df0) : CanCoerce(df0[i])}
        IN  /\ Len(df) = Len(df0)
            /\ IF C = {}
               THEN date_col = None /\ df = df0
               ELSE LET m == CHOOSE i \in C : \A j \in C : i <= j
                    IN  /\ date_col = df0[m].name
                        /\ df[m].name = df0[m].name
                        /\ df[m].kind = "datetime"
                        /\ Len(df[m].vals) = Len(df0[m].vals)
                        /\ \A i \in 1..Len(df0) : i # m => df[i] = df0[i]

\* the first column does not convert, the second does, and a later column
\* that would convert too is still numeric
C8_Witness ==
    /\ pc = "probed"
    /\ Len(df0) >= 3
    /\ ~CanCoerce(df0[1])
    /\ CanCoerce(df0[2])
    /\ date_col = df0[2].name
    /\ df0[3].kind = "num"
    /\ df[3].kind = "num"

\* ---------------------------------------------------------------- C9
Scenario2 == load_data(<<LeadsUp, ConversionDown>>, 2)
Scenario2Narrative ==
    "Marketing performance analysis indicates that "
    \o "Conversion rates declined, indicating funnel efficiency issues. "
    \o "These trends highlight opportunities to improve acquisition efficiency and retention."

\* C9: on leads=[10,20], conversion=[0.5,0.3] the pipeline classifies
\* Marketing, yields exactly the conversion sentence and wraps it in the
\* Marketing template; in general the conversion sentence is emitted exactly
\* when a "leads" and a "conversion" column both exist and conversion's last
\* stored value is strictly less than its first.
C9_ConversionRule ==
    /\ (df0 = Scenario2 /\ Ended) =>
          /\ pc # "error"
          /\ domain = "Marketing"
          /\ insights = <<"Conversion rates declined, indicating funnel efficiency issues.">>
          /\ (pc = "done" => final_output = Scenario2Narrative)
    /\ (Ended /\ domain = "Marketing") =>
          (ConversionSentence \in Range(insights)) =
             ( /\ HasColumn(df, N_leads)
               /\ HasColumn(df, N_conversion)
               /\ Len(Column(df, N_conversion).vals) >= 1
               /\ LET conv == Column(df, N_conversion).vals
                  IN  CellLess(conv[Len(conv)], conv[1]) )

\* ---------------------------------------------------------------- C10
\* s is t with some elements left out, the order kept
RECURSIVE IsSubseq(_, _)
IsSubseq(s, t) ==
    IF s = <<>> THEN TRUE
    ELSE IF t = <<>> THEN FALSE
    ELSE IF Head(s) = Head(t) THEN IsSubseq(Tail(s), Tail(t))
    ELSE IsSubseq(s, Tail(t))

\* every sentence the Finance rules can emit for the table, in the order
\* claimed: column by column, growth before volatility, margin pressure last
RECURSIVE FinanceOrderFrom(_, _)
FinanceOrderFrom(d, i) ==
    IF i > Len(d) THEN <<MarginSentence>>
    ELSE LET g == growth_rate(dropna(d[i]))
         IN  (IF d[i].kind = "num" /\ Len(dropna(d[i]).vals) >= 2
              THEN (IF g.tag = "val"
                    THEN <<IncreasedSentence(d[i], g), DeclinedSentence(d[i], g)>>
                    ELSE <<>>) \o <<VolatilitySentence(d[i])>>
              ELSE <<>>)
             \o FinanceOrderFrom(d, i + 1)
MarketingOrder ==
    <<ConversionSentence, TrafficUpSentence, TrafficDownSentence, ChurnSentence>>

\* the sentences with one space between neighbours, built from the left
RECURSIVE SpaceSeparated(_)
SpaceSeparated(ins) ==
    IF Len(ins) = 1 THEN ins[1]
    ELSE SpaceSeparated(SubSeq(ins, 1, Len(ins) - 1)) \o " " \o ins[Len(ins)]

\* C10: the insight order is the evaluation order (Finance: column by column,
\* growth before volatility, margin pressure last; Marketing: conversion,
\* traffic, churn) and rewrite_insights joins a non-empty list with single
\* spaces in exactly that order between the domain's preamble and epilogue.
C10_EvaluationOrderKept ==
    /\ Returned =>
          IsSubseq(insights,
                   IF domain = "Finance" THEN FinanceOrderFrom(df, 1) ELSE MarketingOrder)
    /\ (pc = "done" /\ insights # <<>>) =>
          final_output =
             (IF domain = "Finance" THEN FinancePreamble ELSE MarketingPreamble)
             \o SpaceSeparated(insights)
             \o (IF domain = "Finance" THEN FinanceEpilogue ELSE MarketingEpilogue)

\* two columns with a growth and a volatility sentence each, then margin
\* pressure, all in the narrative
C10_Witness ==
    /\ pc = "done"
    /\ domain = "Finance"
    /\ Len(insights) = 5
    /\ insights[2] = "Revenue showed unusual spikes or drops, indicating volatility."
    /\ insights[3] = "Cost increased by 40.0% over the period."
    /\ insights[5] = MarginSentence

====
